---- MODULE Spec2Model ----
(***************************************************************************)
(* The "chunksaver" stream processor of go-guerrilla (chunk/processor.go): *)
(* the Chunk Splitter (sd.Open, the stream Write closure, sd.Close), the   *)
(* Chunk Buffer it drives and the content-addressed store behind it.       *)
(*                                                                         *)
(* A byte of the stream is an integer  m * Tag + k : k (1..len) is the     *)
(* byte's content, m the number of the message it was written for.  The    *)
(* program only ever sees the content; m is provenance used by properties. *)
(***************************************************************************)
EXTENDS Integers, Sequences, FiniteSets, TLC

\* ------------------------------------------------------------------ bounds
MaxLen    == 5      \* length of a message streamed once through an instance
ShortLen  == 2      \* length of a message streamed MaxOpens times
MaxOpens  == 2      \* Open calls on one splitter instance
MaxParts  == 3      \* most MIME parts in one message
MaxFails  == 1      \* storage failures injected in one behaviour
MaxSlack  == 1      \* cap(p) - len(p) of the slice handed to Write
SmallCap  == 2      \* a configured chunksaver_chunk_size that forces splits
NumWorkers == 2     \* workers flushing into the shared store concurrently
MaxFlushes == 3     \* chunks one such worker flushes

\* ------------------------------------------------------- program constants
chunkMaxBytes == 16384
Tag == 100

VARIABLES
    config,     \* ChunkSaverConfig.ChunkMaxBytes (chunksaver_chunk_size)
    cap,        \* chunkBuffer capacity set by the initializer (CapTo)
    analyzer,   \* whether "mimeanalyzer" runs before this processor
    envelope,   \* closure variable: FALSE = nil, TRUE = points to the envelope
    msgPos,     \* closure variable (uint)
    written,    \* closure variable (int64)
    progress,   \* closure variable
    buf,        \* chunkBuffer: bytes of the chunk being built
    Info,       \* chunkBuffer.Info: the manifest, a sequence of descriptors
    cur,        \* chunkBuffer: current part (index into the part list, 0 = none)
    chunks,     \* store: rows [hash, refs] of stored chunk payloads
    nextId,     \* store: next message id OpenMessage hands out
    closed,     \* store: the ids CloseMessage was called with, in order
    closeCall,  \* store: the CloseMessage call of the message last closed, if any
    Values,     \* e.Values: [isNil, mid (0 = no "messageID"), hasParts]
    parts,      \* *e.Values["MimeParts"]: the parts the analyzer found so far
    msg,        \* the message being streamed: [len, parts] with the true offsets
    opens,      \* number of Open calls this behaviour may make
    msgNo,      \* number of Open calls so far
    sentN,      \* bytes passed to Write since the last Open
    phase,      \* "idle", "open", "failed" (Open failed), "aborted" (a Write
                \* returned an error: the caller writes no more), "closed", "panic"
    fails,      \* storage failures injected so far
    msgErr,     \* a handler of the current message failed in this processor
    out,        \* the bytes the next stage was given since the last Open
    wk,         \* the manifests of the workers that share the store
    subject,    \* closure variable: "just some headers from the first mime-part"
    to,         \* closure variable
    from,       \* closure variable
    heads,      \* the headers of the first part of the messages streamed
    same,       \* the last Write chunked as a rescan from part 0 would have
    last        \* the last call (of a handler, or of the envelope's owner) and
                \* what it returned

vars == <<config, cap, analyzer, envelope, msgPos, written, progress, buf, Info, cur,
          chunks, nextId, closed, closeCall, Values, parts, msg, opens, msgNo,
          sentN, phase, fails, msgErr, out, wk, subject, to, from, heads, same,
          last>>

\* ----------------------------------------------------------------- helpers
Max(a, b) == IF a >= b THEN a ELSE b

Content(b) == b % Tag
MsgOf(b) == b \div Tag

\* the content hash of a chunk: chunks with equal content have equal hashes
Hash(bytes) == [i \in 1..Len(bytes) |-> Content(bytes[i])]

\* bytes lo+1 .. hi of message m's stream (offsets lo .. hi-1)
Stream(m, lo, hi) == [i \in 1..(hi - lo) |-> m * Tag + lo + i]

\* what lies behind len(p) in p's backing array: bytes of no message
Junk == 0

Increasing(f, n) == \A i \in 1..(n - 1) : f[i] < f[i + 1]

\* part j of a message whose inner boundaries are b = <<B1, S2, B2, S3, ...>>
PartsOf(b, np) ==
    [j \in 1..np |-> [StartingPos     |-> IF j = 1 THEN 0 ELSE b[2 * j - 2],
                      StartingPosBody |-> b[2 * j - 1]]]

\* the messages of n bytes: 0 = S1 < B1 < S2 < B2 < ... <= n
Shapes(n) ==
    UNION { { [len |-> n, parts |-> PartsOf(b, np)] :
                b \in { f \in [1..(2 * np - 1) -> 1..n] :
                          Increasing(f, 2 * np - 1) } } :
            np \in 1..MaxParts }

\* ------------------------------------------------------- mimeanalyzer (env)
\* The analyzer has parsed the stream up to offset e when this processor gets
\* the bytes.  A part is listed once its first byte was seen, its body start
\* is set once the header's end was seen; a boundary exactly at e may or may
\* not have been recognised yet (eqS, eqB).
SeenAt(off, e, eq) == off < e \/ (off = e /\ eq)

\* the part lists the analyzer may have produced at offset e

Analyze(old, m, e, eqS, eqB) ==
    LET np == Max(Len(old),
                  Cardinality({j \in 1..Len(m.parts) :
                                 SeenAt(m.parts[j].StartingPos, e, eqS)}))
    IN [j \in 1..np |->
          [StartingPos     |-> m.parts[j].StartingPos,
           StartingPosBody |->
               IF (j <= Len(old) /\ old[j].StartingPosBody > 0)
                  \/ SeenAt(m.parts[j].StartingPosBody, e, eqB)
               THEN m.parts[j].StartingPosBody ELSE 0]]

PartLists(old, m, e) ==
    { Analyze(old, m, e, eqS, eqB) : eqS \in BOOLEAN, eqB \in BOOLEAN }

\* -------------------------------------------------------------- the store
\* a dedup operation that stores the payload without looking for the hash
DedupNoLookup(rows, h) == Append(rows, [hash |-> h, refs |-> 1])

\* The dedup operation: an atomic check-and-increment-or-insert keyed by hash.
Dedup(rows, h) ==
    IF \E i \in 1..Len(rows) : rows[i].hash = h
    THEN [i \in 1..Len(rows) |->
            IF rows[i].hash = h THEN [rows[i] EXCEPT !.refs = @ + 1] ELSE rows[i]]
    ELSE Append(rows, [hash |-> h, refs |-> 1])

\* ------------------------------------------------------- the chunk buffer
\* The operators below work on a record s holding the state one handler call
\* reads and writes:
\*   buf, Info, cur, chunks, cap     the chunk buffer and the store
\*   ops                             storage operations issued by this call
\*   msgPos, written, pos, count, err, exit    the Write closure's variables
\* F is the set of storage operations of this call (by number) that fail.

\* chunkBuffer.Flush(): no-op when empty; else hash, dedup, append a descriptor
\* to the manifest and clear the buffer.  A storage error leaves all in place.
Flush(s, F) ==
    IF s.buf = <<>> THEN [s EXCEPT !.err = FALSE]
    ELSE IF (s.ops + 1) \in F
         THEN [s EXCEPT !.ops = @ + 1, !.err = TRUE]
         ELSE [s EXCEPT !.ops = @ + 1, !.err = FALSE,
                        !.chunks = Dedup(@, Hash(s.buf)),
                        !.Info = Append(@, [hash  |-> Hash(s.buf),
                                            size  |-> Len(s.buf),
                                            part  |-> s.cur,
                                            bytes |-> s.buf]),
                        !.buf = <<>>]

\* chunkBuffer.Write(data): appends, never beyond the cap: when the buffer is
\* full it is flushed and filling goes on.  Sets count (bytes taken) and err.
RECURSIVE BufWrite(_, _, _, _)

\* after the buffer was filled to the brim and flushed (state f)
BufFilled(f, data, F, taken, free) ==
    IF f.err \/ Len(data) = free
    THEN [f EXCEPT !.count = taken + free]
    ELSE BufWrite(f, SubSeq(data, free + 1, Len(data)), F, taken + free)

BufFill(s, data, F, taken, free) ==
    IF free > Len(data)
    THEN [s EXCEPT !.buf = @ \o data, !.count = taken + Len(data), !.err = FALSE]
    ELSE BufFilled(Flush([s EXCEPT !.buf = @ \o SubSeq(data, 1, free)], F),
                   data, F, taken, free)

BufWrite(s, data, F, taken) == BufFill(s, data, F, taken, s.cap - Len(s.buf))

\* chunkBuffer.CurrentPart(part)
CurrentPart(s, i) == [s EXCEPT !.cur = i]

\* chunkBuffer.Reset(): clears the message-level manifest
Reset(info) == <<>>

\* ------------------------------------------------------ the Write closure
\* p[lo:hi] of a slice p with backing array p \o slack: Go allows hi up to
\* cap(p); bytes behind len(p) are whatever the array holds.
SliceOK(lo, hi, p, slack) == lo <= hi /\ hi <= Len(p) + slack
Slice(lo, hi, p, slack) ==
    [i \in 1..(hi - lo) |-> IF lo + i <= Len(p) THEN p[lo + i] ELSE Junk]

\* written += int64(count), lines 223 and 237
Counted(w) == [w EXCEPT !.written = @ + w.count]

\* lines 226-232 and 240-246, after the flush (state f)
AfterBreak(f, i, bound) ==
    IF f.err
    THEN [f EXCEPT !.exit = "return"]
    ELSE [CurrentPart(f, i) EXCEPT !.pos = @ + f.count, !.msgPos = bound]

\* lines 222-232 (bound = StartingPos) and 236-246 (bound = StartingPosBody):
\* write the bytes up to the boundary, flush, switch the current part, advance
\* pos and msgPos.  The uint difference bound - offset wraps when negative.
BreakAt(s, i, bound, p, offset, F, slack) ==
    IF bound < offset \/ ~SliceOK(s.pos, bound - offset, p, slack)
    THEN [s EXCEPT !.exit = "panic"]
    ELSE AfterBreak(
           Flush(Counted(BufWrite(s, Slice(s.pos, bound - offset, p, slack), F, 0)), F),
           i, bound)

\* "break chunk on new part"
NewPartGuard(part, s) == part.StartingPos > 0 /\ part.StartingPos > s.msgPos

\* "break chunk on header"
HeaderGuard(part, s) == part.StartingPosBody > 0 /\ part.StartingPosBody >= s.msgPos

\* "if on the latest (last) part, and yet there is still data to be written out"
RestGuard(i, ps, p, s) == Len(ps) = i /\ Len(p) - 1 > s.pos

\* lines 251-253, after chunkBuffer.Write (state w); its error is dropped
RestCounted(w) ==
    [w EXCEPT !.written = @ + w.count, !.pos = @ + w.count,
              !.msgPos = @ + w.count, !.err = FALSE]

\* lines 250-253
WriteRest(s, p, F) == RestCounted(BufWrite(s, SubSeq(p, s.pos + 1, Len(p)), F, 0))

\* lines 221-233
OnNewPart(s, i, ps, p, offset, F, slack) ==
    IF NewPartGuard(ps[i], s)
    THEN BreakAt(s, i, ps[i].StartingPos, p, offset, F, slack) ELSE s

\* lines 235-247
OnHeader(s, i, ps, p, offset, F, slack) ==
    IF s.exit = "run" /\ HeaderGuard(ps[i], s)
    THEN BreakAt(s, i, ps[i].StartingPosBody, p, offset, F, slack) ELSE s

\* lines 249-254
OnRest(s, i, ps, p, F) ==
    IF s.exit = "run" /\ RestGuard(i, ps, p, s) THEN WriteRest(s, p, F) ELSE s

\* lines 256-258
NoMoreData(s, p) ==
    IF s.exit = "run" /\ s.pos >= Len(p) THEN [s EXCEPT !.exit = "break"] ELSE s

\* one iteration of the for loop, part i (1-based)
LoopBody(s, i, ps, p, offset, F, slack) ==
    NoMoreData(OnRest(OnHeader(OnNewPart(s, i, ps, p, offset, F, slack),
                               i, ps, p, offset, F, slack),
                      i, ps, p, F),
               p)

\* for i := progress; i < len(*parts); i++
RECURSIVE Loop(_, _, _, _, _, _, _)

LoopNext(s, i, ps, p, offset, F, slack) ==
    IF s.exit = "run" THEN Loop(s, i + 1, ps, p, offset, F, slack) ELSE s

Loop(s, i, ps, p, offset, F, slack) ==
    IF i > Len(ps) THEN s
    ELSE LoopNext(LoopBody(s, i, ps, p, offset, F, slack), i, ps, p, offset, F, slack)

\* the chunking block of the closure (lines 212-259), from the call's entry
\* state to its state at line 260 (or at the return / panic inside the loop)
Chunking(s, prog, ps, p, F, slack) ==
    Loop(CurrentPart(s, 1), prog + 1, ps, p, s.msgPos, F, slack)

\* lines 260-262
NextProgress(prog, ps) == IF Len(ps) > 2 THEN Len(ps) - 2 ELSE prog

\* the nil check left out
NoContextUnchecked(v) == FALSE

\* envelope.Values == nil
NoContext(v) == v.isNil

\* the part list's length left unchecked
HasPartsAnyLen(v, ps) == v.hasParts

\* envelope.Values["MimeParts"].(*[]*mime.Part); ok && len(*parts) > 0
HasParts(v, ps) == v.hasParts /\ Len(ps) > 0

\* the empty string
NoValue == 0

\* addr.String() of the address mail.NewAddress parsed from header value v
AddrString(v) == v + Tag

\* a part's Headers map is filled once its header block has been parsed; each
\* of Subject, To and From is "absent", "bad" (an empty Subject, a To or From
\* that mail.NewAddress rejects) or "good"
NoHeaders == [Subject |-> "absent", To |-> "absent", From |-> "absent"]
HeadersOf(ps, hs) == IF ps[1].StartingPosBody > 0 THEN hs ELSE NoHeaders

\* lines 181-185: val[0] of an empty Subject is the empty string
FillSubject(old, h, v) ==
    IF old = NoValue /\ h # "absent" THEN (IF h = "good" THEN v ELSE NoValue) ELSE old

\* lines 186-193 and 194-201
FillAddress(old, h, v) ==
    IF old = NoValue /\ h = "good" THEN AddrString(v) ELSE old

\* fillVars, lines 179-205, on the headers hs whose values are v
fillVars(ps, hs, v, c) ==
    IF Len(ps) > 0
    THEN [subject |-> FillSubject(c.subject, HeadersOf(ps, hs).Subject, v),
          to      |-> FillAddress(c.to, HeadersOf(ps, hs).To, v),
          from    |-> FillAddress(c.from, HeadersOf(ps, hs).From, v)]
    ELSE c

\* ----------------------------------------------------------- the handlers
\* sets of at most b elements of S: the storage operations that fail in a call
RECURSIVE SubsetsUpTo(_, _)
SubsetsUpTo(S, b) ==
    IF b <= 0 THEN {{}}
    ELSE LET prev == SubsetsUpTo(S, b - 1)
         IN prev \cup { T \cup {x} : T \in prev, x \in S }

\* the failure patterns to try on a call that issues k storage operations
\* when none fails: a failed operation can add one retry
FailSets(k) == SubsetsUpTo(1..(k + MaxFails - fails), MaxFails - fails)

\* the handler's view of the buffer, the store and the closure variables
Entry ==
    [buf |-> buf, Info |-> Info, cur |-> cur, chunks |-> chunks, cap |-> cap,
     ops |-> 0, msgPos |-> msgPos, written |-> written,
     pos |-> 0, count |-> 0, err |-> FALSE, exit |-> "run"]

Workers == 1..NumWorkers

\* a handler's result: the error it returned ("nil" for none) and whether the
\* result is the one the next stage returned
NoCall == [op |-> "none", err |-> "nil", fromNext |-> FALSE]

NoClose == [mid |-> 0]

\* the first-part headers of the messages tried
HeaderChoices ==
    { [Subject |-> "good", To |-> "good", From |-> "good"],
      [Subject |-> "bad",  To |-> "bad",  From |-> "absent"] }

\* the closure's subject, to and from
Captured == [subject |-> subject, to |-> to, from |-> from]

EmptyMap == [isNil |-> FALSE, mid |-> 0, hasParts |-> FALSE]
NilMap   == [isNil |-> TRUE,  mid |-> 0, hasParts |-> FALSE]

\* chunksaver_chunk_size settings tried
ConfigValues == {-1, 0, SmallCap}

\* an initializer that caps the buffer to the default whatever the setting
InitCapDefault(ChunkMaxBytes) == chunkMaxBytes

\* an initializer that takes a zero setting for a size
InitCapNonNegative(ChunkMaxBytes) ==
    IF ChunkMaxBytes >= 0 THEN ChunkMaxBytes ELSE chunkMaxBytes

\* the initializer, lines 116-121
InitCap(ChunkMaxBytes) ==
    IF ChunkMaxBytes > 0 THEN ChunkMaxBytes ELSE chunkMaxBytes

\* the state after Decorate and the initializer, before a message of ms is
\* streamed in o transactions
Start(ms, o) ==
    /\ config \in ConfigValues
    /\ cap = InitCap(config)
    /\ analyzer \in BOOLEAN
    /\ envelope = FALSE
    /\ msgPos = 0
    /\ written = 0
    /\ progress = 0
    /\ buf = <<>>
    /\ Info = <<>>
    /\ cur = 0
    /\ chunks = <<>>
    /\ nextId = 1
    /\ closed = <<>>
    /\ closeCall = NoClose
    /\ Values \in {EmptyMap, NilMap}
    /\ parts = <<>>
    /\ msg \in ms
    /\ opens = o
    /\ msgNo = 0
    /\ sentN = 0
    /\ phase = "idle"
    /\ fails = 0
    /\ msgErr = FALSE
    /\ out = <<>>
    /\ wk = [w \in Workers |-> <<>>]
    /\ subject = NoValue
    /\ to = NoValue
    /\ from = NoValue
    /\ heads \in (IF analyzer THEN HeaderChoices ELSE {NoHeaders})
    /\ same = TRUE
    /\ last = NoCall

Init == Start(Shapes(MaxLen), 1) \/ Start(Shapes(ShortLen), MaxOpens)

\* sd.Open, lines 132-153; the transaction it starts streams the message again
Open(fail) ==
    /\ phase # "panic"
    /\ msgNo < opens
    /\ fail => fails < MaxFails
    /\ written' = 0
    /\ progress' = 0
    /\ msgNo' = msgNo + 1
    /\ sentN' = 0
    /\ parts' = <<>>
    /\ msgErr' = fail
    /\ fails' = IF fail THEN fails + 1 ELSE fails
    /\ nextId' = IF fail THEN nextId ELSE nextId + 1
    /\ IF fail
       THEN /\ phase' = "failed"
            /\ UNCHANGED <<Values, envelope>>
       ELSE IF Values.isNil
       THEN /\ phase' = "panic"       \* assignment to entry in nil map
            /\ UNCHANGED <<Values, envelope>>
       ELSE /\ phase' = "open"
            /\ Values' = [Values EXCEPT !.mid = nextId]
            /\ envelope' = TRUE
    /\ last' = [NoCall EXCEPT !.op = "Open",
                              !.err = IF fail THEN "storage" ELSE "nil"]
    /\ closeCall' = NoClose
    /\ out' = <<>>
    /\ same' = TRUE
    /\ UNCHANGED <<wk, config, cap, analyzer, msgPos, buf, Info, cur, chunks, closed,
                   msg, opens, subject, to, from, heads>>

\* the result of the next stage's Write(p)
NextStage(p, spErr) ==
    [op |-> "Write", err |-> IF spErr THEN "next" ELSE "nil", fromNext |-> TRUE]

\* envelope.Values after the analyzer has seen the input
AnalyzedValues ==
    IF analyzer /\ ~Values.isNil THEN [Values EXCEPT !.hasParts = TRUE] ELSE Values

\* the effect of the closure given r, the state its chunking block ends in
Written(r, p, v, ps, F, spErr) ==
    /\ F \subseteq 1..r.ops
    /\ sentN' = sentN + Len(p)
    /\ parts' = ps
    /\ Values' = v
    /\ buf' = r.buf
    /\ Info' = r.Info
    /\ cur' = r.cur
    /\ chunks' = r.chunks
    /\ msgPos' = r.msgPos
    /\ written' = r.written
    /\ fails' = fails + Cardinality(F)
    /\ IF ~envelope \/ r.exit = "panic"
       THEN /\ phase' = "panic"    \* nil dereference / slice out of range
            /\ last' = [NoCall EXCEPT !.op = "Write", !.err = "panic"]
            /\ UNCHANGED <<progress, msgErr, out>>
       ELSE IF NoContext(v)
       THEN /\ last' = [NoCall EXCEPT !.op = "Write",
                                      !.err = "no message headers found"]
            /\ msgErr' = TRUE
            /\ phase' = "aborted"
            /\ UNCHANGED <<progress, out>>
       ELSE IF r.exit = "return"
       THEN /\ last' = [NoCall EXCEPT !.op = "Write", !.err = "storage"]
            /\ msgErr' = TRUE
            /\ phase' = "aborted"
            /\ UNCHANGED <<progress, out>>
       ELSE /\ progress' = IF HasParts(v, ps) THEN NextProgress(progress, ps)
                           ELSE progress
            /\ out' = out \o p
            /\ last' = NextStage(p, spErr)
            /\ phase' = IF spErr THEN "aborted" ELSE phase
            /\ UNCHANGED msgErr
    /\ UNCHANGED <<wk, config, cap, analyzer, envelope, nextId, closed, closeCall, msg,
                   opens, msgNo, heads>>

\* line 214: subject, to, from = fillVars(parts, subject, to, from)
Kept(c) == subject' = c.subject /\ to' = c.to /\ from' = c.from

\* two runs of the chunking block wrote and flushed the same: they leave the
\* same buffer, manifest, store and closure variables
SameChunking(a, b) ==
    /\ a.buf = b.buf /\ a.Info = b.Info /\ a.chunks = b.chunks
    /\ a.msgPos = b.msgPos /\ a.written = b.written /\ a.exit = b.exit

\* the closure on input p, the part list being ps and the metadata map v
WriteOn(p, v, ps, F, slack, spErr) ==
    /\ Written(IF envelope /\ ~NoContext(v) /\ HasParts(v, ps)
               THEN Chunking(Entry, progress, ps, p, F, slack) ELSE Entry,
               p, v, ps, F, spErr)
    /\ Kept(IF envelope /\ ~NoContext(v) /\ HasParts(v, ps)
            THEN fillVars(ps, heads, msgNo, Captured) ELSE Captured)
    /\ same' = ((envelope /\ ~NoContext(v) /\ HasParts(v, ps)) =>
                  SameChunking(Chunking(Entry, progress, ps, p, F, slack),
                               Chunking(Entry, 0, ps, p, F, slack)))

\* the stream Write closure, lines 207-265, on the next n bytes of the message
Write(n, ps, F, slack, spErr) ==
    /\ phase \in {"idle", "open", "failed"}
    /\ phase = "idle" => n = 0
    /\ WriteOn(Stream(msgNo, sentN, sentN + n), AnalyzedValues, ps, F, slack, spErr)

\* envelope.QueuedId: the queue id of the transaction the envelope is in
QueuedId == msgNo

\* a Close that resets the manifest before it hands it to CloseMessage
CloseCallAfterReset(mid, total, manifest, ok) ==
    [mid |-> mid, totalBytes |-> total, manifest |-> Reset(manifest), ok |-> ok,
     subject |-> subject, queuedId |-> msgNo, to |-> to, from |-> from,
     msgNo |-> msgNo, sent |-> sentN, chunked |-> HasParts(Values, parts),
     clean |-> ~msgErr /\ phase = "open", own |-> phase \in {"open", "aborted"}]

\* the CloseMessage call as the store receives it, with what the environment
\* knows of the message that is being closed
CloseCall(mid, total, manifest, ok) ==
    [mid |-> mid, totalBytes |-> total, manifest |-> manifest, ok |-> ok,
     subject |-> subject, queuedId |-> QueuedId, to |-> to, from |-> from,
     msgNo |-> msgNo, sent |-> sentN, chunked |-> HasParts(Values, parts),
     clean |-> ~msgErr /\ phase = "open", own |-> phase \in {"open", "aborted"}]

\* the effect of sd.Close given r, the state its flush ends in
Closed(r, F, fail) ==
    /\ F \subseteq 1..r.ops
    /\ buf' = r.buf
    /\ chunks' = r.chunks
    /\ IF r.err
       THEN /\ ~fail
            /\ phase' = "closed"
            /\ Info' = r.Info
            /\ fails' = fails + Cardinality(F)
            /\ msgErr' = TRUE
            /\ last' = [NoCall EXCEPT !.op = "Close", !.err = "storage"]
            /\ UNCHANGED <<closed, closeCall>>
       ELSE IF ~envelope
       THEN /\ ~fail
            /\ phase' = "panic"     \* nil dereference; the deferred Reset runs
            /\ Info' = Reset(r.Info)
            /\ fails' = fails + Cardinality(F)
            /\ last' = [NoCall EXCEPT !.op = "Close", !.err = "panic"]
            /\ UNCHANGED <<closed, closeCall, msgErr>>
       ELSE IF Values.isNil \/ Values.mid = 0
       THEN /\ ~fail
            /\ phase' = "closed"
            /\ Info' = Reset(r.Info)
            /\ fails' = fails + Cardinality(F)
            /\ last' = [NoCall EXCEPT !.op = "Close"]
            /\ UNCHANGED <<closed, closeCall, msgErr>>
       ELSE /\ fail => fails + Cardinality(F) < MaxFails
            /\ phase' = "closed"
            /\ closed' = Append(closed, Values.mid)
            /\ closeCall' = CloseCall(Values.mid, written, r.Info, ~fail)
            /\ Info' = Reset(r.Info)
            /\ fails' = fails + Cardinality(F) + (IF fail THEN 1 ELSE 0)
            /\ msgErr' = (msgErr \/ fail)
            /\ last' = [NoCall EXCEPT !.op = "Close",
                                      !.err = IF fail THEN "storage" ELSE "nil"]
    /\ UNCHANGED <<wk, config, cap, analyzer, envelope, msgPos, written, progress, cur,
                   nextId, Values, parts, msg, opens, msgNo, sentN, out, subject, to,
                   from, heads, same>>

\* sd.Close, lines 155-177
Close(F, fail) ==
    /\ phase \in {"open", "failed", "aborted"}
    /\ Closed(Flush(Entry, F), F, fail)

\* the envelope's owner replaces the metadata map, by a fresh one or by none,
\* before the message is streamed or before the next transaction
ReplaceValues(v) ==
    /\ \/ phase = "open" /\ sentN = 0
       \/ phase = "closed" /\ msgNo < opens
    /\ v # Values
    /\ Values' = v
    /\ last' = [NoCall EXCEPT !.op = "ReplaceValues"]
    /\ UNCHANGED <<wk, config, cap, analyzer, envelope, msgPos, written, progress, buf,
                   Info, cur, chunks, nextId, closed, closeCall, parts, msg, opens,
                   msgNo, sentN, phase, fails, msgErr, out, subject, to, from, heads,
                   same>>

DoOpen == \E fail \in BOOLEAN : Open(fail)

\* the part list as the analyzer leaves it before this processor sees n bytes
PartsAt(n) ==
    IF analyzer /\ ~Values.isNil THEN PartLists(parts, msg, sentN + n) ELSE {parts}

DoWrite ==
    \E n \in 0..(msg.len - sentN) :
      \E ps \in PartsAt(n), slack \in 0..MaxSlack, spErr \in BOOLEAN :
        \E F \in FailSets(2 * Len(ps) + n + 1) :
          Write(n, ps, F, slack, spErr)

DoClose == \E F \in FailSets(1), fail \in BOOLEAN : Close(F, fail)

DoReplaceValues == \E v \in {EmptyMap, NilMap} : ReplaceValues(v)

Next == DoOpen \/ DoWrite \/ DoClose \/ DoReplaceValues

Spec == Init /\ [][Next]_vars

\* ------------------------------------------- workers sharing the store
\* Each mail transaction has its own worker, splitter session and manifest;
\* the store is shared.  A worker's chunk buffer holds the first k bytes of
\* its message and is flushed (line 225, 239 or 156): the flushes of different
\* workers interleave in any order, each dedup operation being atomic.
WorkerFlushed(r, w, fail) ==
    /\ chunks' = r.chunks
    /\ wk' = [wk EXCEPT ![w] = r.Info]
    /\ fails' = IF fail THEN fails + 1 ELSE fails
    /\ UNCHANGED <<config, cap, analyzer, envelope, msgPos, written, progress,
                   buf, Info, cur, nextId, closed, closeCall, Values, parts, msg,
                   opens, msgNo, sentN, phase, msgErr, out, subject, to, from, heads,
                   same, last>>

WorkerFlush(w, k, fail) ==
    /\ Len(wk[w]) < MaxFlushes
    /\ fail => fails < MaxFails
    /\ WorkerFlushed(Flush([Entry EXCEPT !.buf = Stream(w, 0, k), !.Info = wk[w],
                                         !.cur = 1],
                           IF fail THEN {1} ELSE {}),
                     w, fail)

DoWorkerFlush ==
    \E w \in Workers, k \in 1..2, fail \in BOOLEAN : WorkerFlush(w, k, fail)

NextWorkers == DoWorkerFlush

InitWorkers ==
    /\ Init
    /\ config = 0 /\ analyzer /\ Values = EmptyMap /\ heads.Subject = "good"
    /\ opens = 1 /\ Len(msg.parts) = 1 /\ msg.parts[1].StartingPosBody = 1

SpecWorkers == InitWorkers /\ [][NextWorkers]_vars

\* ------------------------------------ a long message with a long first header
LongLen == MaxLen + 2

\* the first part's header is as long as the other parts allow
WideHeader(m) == m.parts[1].StartingPosBody = m.len - 2 * (Len(m.parts) - 1)

InitLong ==
    /\ Start({ m \in Shapes(LongLen) : Len(m.parts) > 2 /\ WideHeader(m) }, 1)
    /\ config = 0 /\ analyzer /\ Values = EmptyMap /\ heads.Subject = "good"

SpecLong == InitLong /\ [][Next]_vars

\* ================================================================ properties
RECURSIVE Concat(_)
Concat(ss) == IF ss = <<>> THEN <<>> ELSE Head(ss) \o Concat(Tail(ss))

RECURSIVE SumSizes(_)
SumSizes(manifest) ==
    IF manifest = <<>> THEN 0 ELSE Head(manifest).size + SumSizes(Tail(manifest))

\* the payloads the manifest refers to, in manifest order
Payloads(manifest) == Concat([i \in 1..Len(manifest) |-> manifest[i].hash])

\* CloseMessage succeeded for a message that was chunked, in which no handler
\* returned an error, no storage operation failed and no slice of the input
\* reached behind its length
ClosedClean ==
    /\ closeCall.mid # 0 /\ closeCall.ok /\ closeCall.chunked /\ closeCall.clean
    /\ fails = 0
    /\ \A i \in 1..Len(closeCall.manifest) :
          \A j \in 1..Len(closeCall.manifest[i].bytes) :
              closeCall.manifest[i].bytes[j] # Junk

\* the part starts and body starts that lie inside the first n bytes
Boundaries(n) ==
    { x \in { msg.parts[j].StartingPos : j \in 1..Len(msg.parts) }
            \cup { msg.parts[j].StartingPosBody : j \in 1..Len(msg.parts) } :
        0 < x /\ x < n }

\* chunk d holds bytes of message m from both sides of offset x
Straddles(d, m, x) ==
    \E i, j \in 1..Len(d.bytes) :
        /\ MsgOf(d.bytes[i]) = m /\ MsgOf(d.bytes[j]) = m
        /\ Content(d.bytes[i]) <= x /\ Content(d.bytes[j]) > x

\* the stream offset at which chunk d ends
EndOf(d) == Content(d.bytes[Len(d.bytes)])

\* C1 (as claimed): for a message with a non-empty part list, after Open, the
\* Writes and a successful Close, the payloads of the manifest handed to
\* CloseMessage, concatenated in manifest order, are the byte stream that was
\* passed to Write.
C1_Reconstruction ==
    ClosedClean =>
        Payloads(closeCall.manifest) = Hash(Stream(closeCall.msgNo, 0, closeCall.sent))

\* C2 (as claimed): in every CloseMessage call, after any sequence of Open,
\* Write and Close on the instance, totalBytes is the sum of the sizes of the
\* descriptors in the manifest.
C2_SizeAccounting ==
    closeCall.mid # 0 => closeCall.totalBytes = SumSizes(closeCall.manifest)

\* C3 (as claimed): for a message with a non-empty part list, the total-bytes
\* value passed to CloseMessage is the number of bytes passed to Write between
\* the Open and the Close of that message.
C3_ExactlyOnce ==
    ClosedClean => closeCall.totalBytes = closeCall.sent

\* C4 (as claimed): no chunk of the manifest holds bytes from both sides of a
\* part start or of a body start that lies inside the stream.
C4_HeaderBodySeparation ==
    ClosedClean =>
        \A i \in 1..Len(closeCall.manifest) : \A x \in Boundaries(closeCall.sent) :
            ~Straddles(closeCall.manifest[i], closeCall.msgNo, x)

\* C5 (as claimed): every chunk of the manifest ends at a part start, at a body
\* start, where the chunk reached the size cap, or at the end of the stream.
C5_BoundaryAlignment ==
    ClosedClean =>
        \A i \in 1..Len(closeCall.manifest) :
            LET d == closeCall.manifest[i]
            IN \/ EndOf(d) \in Boundaries(closeCall.sent)
               \/ d.size = cap
               \/ EndOf(d) = closeCall.sent

\* C10 (as claimed): after Close returns, with success, with a flush error or
\* with a CloseMessage error, the chunk buffer's manifest is empty.
C10_CloseResetsManifest ==
    last.op = "Close" => Info = <<>>

\* the descriptors with hash h in a manifest
Refs(manifest, h) == Cardinality({ i \in 1..Len(manifest) : manifest[i].hash = h })

RECURSIVE SumRefs(_, _)
SumRefs(W, h) ==
    IF W = {} THEN 0
    ELSE LET w == CHOOSE x \in W : TRUE
         IN Refs(wk[w], h) + SumRefs(W \ {w}, h)

Rows(h) == { i \in 1..Len(chunks) : chunks[i].hash = h }

\* C6: whatever the interleaving of the workers' flushes, and also when one
\* worker flushes the same content twice, the store holds exactly one payload
\* for every flushed hash, its reference count is the number of flushes of that
\* content, and every descriptor refers to the hash of the bytes flushed.
C6_DedupAtomicity ==
    /\ \A w \in Workers : \A i \in 1..Len(wk[w]) :
          /\ wk[w][i].hash = Hash(wk[w][i].bytes)
          /\ Cardinality(Rows(wk[w][i].hash)) = 1
    /\ \A i \in 1..Len(chunks) :
          /\ Rows(chunks[i].hash) = {i}
          /\ chunks[i].refs = SumRefs(Workers, chunks[i].hash)

\* two workers have flushed the same content, one of them twice
C6_Witness ==
    \E i \in 1..Len(chunks) :
        /\ chunks[i].refs = 3
        /\ Refs(wk[1], chunks[i].hash) = 2
        /\ Refs(wk[2], chunks[i].hash) = 1

\* the configured maximum chunk size
ConfiguredMax == IF config > 0 THEN config ELSE chunkMaxBytes

\* C7: every descriptor of every manifest has a size of at most the configured
\* maximum chunk size, also when the splitter hands the buffer a longer span.
C7_ChunkSizeCap ==
    /\ \A i \in 1..Len(Info) : Info[i].size <= ConfiguredMax
    /\ closeCall.mid # 0 =>
          \A i \in 1..Len(closeCall.manifest) :
              closeCall.manifest[i].size <= ConfiguredMax

\* a whole message without a boundary inside was handed over and came out in
\* chunks of the configured size and a rest, in order, no byte lost
C7_Witness ==
    /\ ClosedClean
    /\ config = SmallCap
    /\ closeCall.sent = MaxLen
    /\ Boundaries(MaxLen) = {}
    /\ Len(closeCall.manifest) >= 2
    /\ \A i \in 1..(Len(closeCall.manifest) - 1) : closeCall.manifest[i].size = SmallCap
    /\ Payloads(closeCall.manifest) = Hash(Stream(closeCall.msgNo, 0, MaxLen))

\* C8: a Write on an envelope whose metadata has no part list, or an empty one,
\* hands exactly the input to the next stage, returns that stage's result, and
\* leaves the chunk buffer, the manifest, the store, the position, the progress
\* marker and the written total as they were.
C8_PassThrough ==
    [][(last'.op = "Write" /\ envelope /\ ~Values'.isNil
          /\ (~Values'.hasParts \/ parts' = <<>>))
         => /\ out' = out \o Stream(msgNo, sentN, sentN')
            /\ last'.fromNext
            /\ UNCHANGED <<buf, Info, cur, chunks, msgPos, progress, written>>]_vars

\* bytes went through to the next stage and nothing was chunked
C8_Witness ==
    /\ last.op = "Write" /\ last.fromNext
    /\ ~Values.isNil /\ ~Values.hasParts
    /\ out = Stream(msgNo, 0, sentN) /\ sentN > 0
    /\ buf = <<>> /\ Info = <<>> /\ chunks = <<>> /\ msgPos = 0 /\ written = 0

\* C9 (as claimed): a Write on an envelope whose metadata map is empty returns
\* an error, and no bytes are chunked.
C9_EmptyMapIsError ==
    [][(last'.op = "Write" /\ envelope /\ Values' = EmptyMap)
         => /\ last'.err # "nil" /\ ~last'.fromNext
            /\ UNCHANGED <<buf, Info, msgPos, written>>]_vars

\* C9 (amended): a Write on an envelope whose metadata map is nil returns the
\* error "no message headers found", hands nothing to the next stage and chunks
\* nothing; on a map that is empty but not nil it is a pass-through that
\* returns the next stage's result, and chunks nothing either.
C9_NilMapIsError ==
    [][(last'.op = "Write" /\ envelope /\ (Values'.isNil \/ Values' = EmptyMap))
         => /\ IF Values'.isNil
               THEN last'.err = "no message headers found" /\ out' = out
               ELSE last'.fromNext /\ out' = out \o Stream(msgNo, sentN, sentN')
            /\ UNCHANGED <<buf, Info, msgPos, written>>]_vars

\* a Write has found the metadata map nil
C9_Witness ==
    /\ last.op = "Write" /\ last.err = "no message headers found"
    /\ Values.isNil /\ sentN > 0

\* C11: Close calls CloseMessage exactly when its flush succeeded and the
\* envelope holds a message id, with the written total, the manifest, the
\* captured subject, to and from and the queue id; it returns an error exactly
\* when the flush or CloseMessage returned one, and after a failed flush
\* CloseMessage is not called.
C11_CloseFinalisation ==
    [][last'.op = "Close" =>
         /\ (closed' # closed) <=>
               (buf' = <<>> /\ envelope /\ ~Values.isNil /\ Values.mid # 0)
         /\ closed' # closed =>
               /\ closed' = Append(closed, Values.mid)
               /\ closeCall'.mid = Values.mid
               /\ closeCall'.totalBytes = written
               /\ closeCall'.manifest = Flush(Entry, {}).Info
               /\ closeCall'.subject = subject
               /\ closeCall'.to = to
               /\ closeCall'.from = from
               /\ closeCall'.queuedId = QueuedId
         /\ last'.err # "panic" =>
               ((last'.err # "nil") <=>
                   (buf' # <<>> \/ (closed' # closed /\ ~closeCall'.ok)))]_vars

\* Close has flushed the last chunk and finalised a message whose subject was
\* captured
C11_Witness ==
    /\ last.op = "Close" /\ last.err = "nil"
    /\ closeCall.mid # 0 /\ closeCall.ok
    /\ Len(closeCall.manifest) >= 2
    /\ closeCall.totalBytes > 0
    /\ closeCall.subject # NoValue

\* C12 (as claimed): after a successful Open the running byte position, the
\* progress marker and the written total are zero.
C12_OpenResetsSession ==
    (last.op = "Open" /\ phase = "open") =>
        (msgPos = 0 /\ progress = 0 /\ written = 0)

\* C13: the chunk buffer's cap is the configured maximum chunk size when that
\* is positive and 16384 when it is unset (zero) or negative.
C13_DefaultCap ==
    cap = IF config > 0 THEN config ELSE 16384

\* a splitter without a chunk size setting has chunked under the default cap
C13_Witness ==
    /\ config = 0 /\ cap = 16384
    /\ Info # <<>>

\* offset off lies in the byte range of part j of the message
InPart(j, off) ==
    /\ j \in 1..Len(msg.parts)
    /\ msg.parts[j].StartingPos <= off
    /\ j < Len(msg.parts) => off < msg.parts[j + 1].StartingPos

\* C14 (as claimed): every descriptor of the manifest names the part whose
\* byte range holds the chunk's bytes.
C14_PartAttribution ==
    ClosedClean =>
        \A i \in 1..Len(closeCall.manifest) :
            \A j \in 1..Len(closeCall.manifest[i].bytes) :
                InPart(closeCall.manifest[i].part,
                       Content(closeCall.manifest[i].bytes[j]) - 1)

\* C15 (as claimed): when a Write has set progress to len(parts)-2, the parts
\* below progress have their start and body start at or behind the running
\* position, and every Write chunks as a rescan from part 0 would.
C15_ProgressIsOptimisation ==
    /\ same
    /\ (last.op = "Write" /\ last.fromNext /\ Len(parts) > 2) =>
          \A j \in 1..progress :
              /\ parts[j].StartingPos <= msgPos
              /\ parts[j].StartingPosBody <= msgPos

\* the values a message may be closed with: none, or its own header's
OwnValue(h, v) == {NoValue} \cup (IF h = "good" THEN {v} ELSE {})

\* C16 (as claimed): the subject, to and from passed to CloseMessage are empty
\* or the values of the first part's headers of the message being closed.
C16_CapturedHeaders ==
    (closeCall.mid # 0 /\ closeCall.own) =>
        /\ closeCall.subject \in OwnValue(heads.Subject, closeCall.msgNo)
        /\ closeCall.to \in OwnValue(heads.To, AddrString(closeCall.msgNo))
        /\ closeCall.from \in OwnValue(heads.From, AddrString(closeCall.msgNo))

\* C17 (as claimed): a Write in which no flush fails hands its input to the
\* next stage once and returns that stage's result; a Write in which a flush
\* fails returns the storage error and hands nothing to the next stage.
C17_ForwardingOrder ==
    [][(last'.op = "Write" /\ last'.err \notin {"panic", "no message headers found"})
         => IF fails' > fails
            THEN last'.err = "storage" /\ out' = out
            ELSE last'.fromNext /\ out' = out \o Stream(msgNo, sentN, sentN')]_vars

\* C18 (as claimed): no slice of the input reaches behind len(p): Write never
\* panics on a slice expression and never buffers a byte from behind len(p).
C18_NoOutOfRangeSlice ==
    /\ ~(last.op = "Write" /\ last.err = "panic" /\ envelope)
    /\ \A i \in 1..Len(buf) : buf[i] # Junk
    /\ \A i \in 1..Len(Info) : \A j \in 1..Len(Info[i].bytes) : Info[i].bytes[j] # Junk

\* C19 (as claimed): every CloseMessage call carries the id of the most recent
\* successful Open, and no id is passed to CloseMessage twice.
C19_ClosedAtMostOnce ==
    /\ closeCall.mid # 0 => closeCall.mid = nextId - 1
    /\ \A i, j \in 1..Len(closed) : i < j => closed[i] # closed[j]

\* C20 (as claimed): the manifest passed to CloseMessage for a message holds
\* only chunks of bytes that were written for that message.
C20_MessageIsolation ==
    (closeCall.mid # 0 /\ closeCall.own) =>
        \A i \in 1..Len(closeCall.manifest) :
            \A j \in 1..Len(closeCall.manifest[i].bytes) :
                closeCall.manifest[i].bytes[j] # Junk =>
                    MsgOf(closeCall.manifest[i].bytes[j]) = closeCall.msgNo

====
